---------------------------- MODULE Spec2Model ----------------------------
(***************************************************************************)
(* A model of the HTTP layer of pistache (src/src/http.cc): the            *)
(* incremental request parser (RequestLineStep, HeadersStep, BodyStep and  *)
(* the Parser driver), the connection glue Handler::onInput, and the       *)
(* response serializer Response::send.                                     *)
(*                                                                         *)
(* Bytes are one-character strings, a buffer is a sequence of bytes.  The  *)
(* cursor position is 0-based as in the source; the byte at position c of  *)
(* a buffer b is b[c + 1].                                                 *)
(***************************************************************************)
EXTENDS Integers, Sequences, FiniteSets, TLC

(***************************************************************************)
(* Bytes                                                                   *)
(***************************************************************************)
CR == "\r"
LF == "\n"
SP == " "
\* The value of a byte of the zero-filled buffer storage that no feed has
\* written yet (the cursor may stand one past the last fed byte).
NUL == "NUL"

CRLF == <<CR, LF>>

\* ------------------------------------------------------------------------
\* Bounds of the model
\* ------------------------------------------------------------------------
\* Const::MaxBuffer, the capacity of a connection's request buffer, scaled
\* down so that overflow is reached (the response scratch buffer is twice
\* this size and must still hold the error responses, which need 97 bytes).
MaxBuffer == 52
\* BodyStep::bytesRead survives a reset and can grow without limit over the
\* life of a connection; the model follows it up to this value.
MaxBytesRead == 8
\* Stand-in for 2^64, the modulus of size_t arithmetic (TLC's integers are
\* 32 bits wide); every buffer length is far below it.
SizeModulus == 1000000

\* ------------------------------------------------------------------------
\* Sequence helpers
\* ------------------------------------------------------------------------
\* The bytes of b at the 0-based positions from, from+1, ..., to-1.
Span(b, from, to) == SubSeq(b, from + 1, to)

RECURSIVE Flatten(_)
Flatten(ss) == IF ss = <<>> THEN <<>> ELSE Head(ss) \o Flatten(Tail(ss))

\* ------------------------------------------------------------------------
\* Stream cursor
\* ------------------------------------------------------------------------
\* StreamCursor::current(): the byte under the cursor.
Current(b, c) == IF c < Len(b) THEN b[c + 1] ELSE NUL

\* StreamCursor::remaining()
Remaining(b, c) == Len(b) - c

\* StreamCursor::eof()
Eof(b, c) == Remaining(b, c) = 0

\* StreamCursor::advance(n) succeeds iff at least n bytes remain; the cursor
\* may come to stand one past the last byte.
CanAdvance(b, c, n) == n <= Remaining(b, c)

\* StreamCursor::eol(): the two bytes at the cursor are CR, LF.
Eol(b, c) == Current(b, c) = CR /\ Current(b, c + 1) = LF

\* match_raw(literal, cursor): the literal is at the cursor.
MatchRaw(lit, b, c) ==
    /\ Remaining(b, c) >= Len(lit)
    /\ Span(b, c, c + Len(lit)) = lit

\* match_until(chars, cursor): the first position at or after c whose byte is
\* in chars; -1 when the input ends first.
RECURSIVE MatchUntil(_, _, _)
MatchUntil(chars, b, c) ==
    IF Eof(b, c) THEN -1
    ELSE IF Current(b, c) \in chars THEN c
    ELSE MatchUntil(chars, b, c + 1)

\* "while (!cursor.eol()) if (!cursor.advance(1)) return Again": the first
\* position at or after c where eol() holds; -1 when advance fails first.
RECURSIVE ScanEol(_, _)
ScanEol(b, c) ==
    IF Eol(b, c) THEN c
    ELSE IF ~CanAdvance(b, c, 1) THEN -1
    ELSE ScanEol(b, c + 1)

\* "while (cursor.current() == ' ') if (!cursor.advance(1)) return Again":
\* the first position at or after c whose byte is not SP (advance cannot
\* fail there: the byte under the cursor is a fed one).
RECURSIVE SkipSpaces(_, _)
SkipSpaces(b, c) ==
    IF Current(b, c) = SP THEN SkipSpaces(b, c + 1) ELSE c

\* ------------------------------------------------------------------------
\* Methods, versions, codes
\* ------------------------------------------------------------------------
\* HTTP_METHODS: the method table, in its order.
Methods == <<
    [str |-> <<"O", "P", "T", "I", "O", "N", "S">>, repr |-> "Options"],
    [str |-> <<"G", "E", "T">>,                     repr |-> "Get"],
    [str |-> <<"P", "O", "S", "T">>,                repr |-> "Post"],
    [str |-> <<"H", "E", "A", "D">>,                repr |-> "Head"],
    [str |-> <<"P", "U", "T">>,                     repr |-> "Put"],
    [str |-> <<"D", "E", "L", "E", "T", "E">>,      repr |-> "Delete"],
    [str |-> <<"T", "R", "A", "C", "E">>,           repr |-> "Trace"],
    [str |-> <<"C", "O", "N", "N", "E", "C", "T">>, repr |-> "Connect"],
    [str |-> <<"P", "A", "T", "C", "H">>,           repr |-> "Patch"] >>

Http10Str == <<"H", "T", "T", "P", "/", "1", ".", "0">>
Http11Str == <<"H", "T", "T", "P", "/", "1", ".", "1">>

\* Code::Bad_Request and the other codes the glue uses.
Ok == 200
BadRequest == 400
RequestEntityTooLarge == 413
InternalServerError == 500

MsgUnknownMethod ==
    <<"U", "n", "k", "n", "o", "w", "n", SP, "H", "T", "T", "P", SP,
      "r", "e", "q", "u", "e", "s", "t", SP, "m", "e", "t", "h", "o", "d">>
MsgExpectedSP ==
    <<"M", "a", "l", "f", "o", "r", "m", "e", "d", SP, "H", "T", "T", "P", SP,
      "r", "e", "q", "u", "e", "s", "t", SP, "a", "f", "t", "e", "r", SP,
      "M", "e", "t", "h", "o", "d", ",", SP,
      "e", "x", "p", "e", "c", "t", "e", "d", SP, "S", "P">>
MsgInvalidVersion ==
    <<"E", "n", "c", "o", "u", "n", "t", "e", "r", "e", "d", SP,
      "i", "n", "v", "a", "l", "i", "d", SP, "H", "T", "T", "P", SP,
      "v", "e", "r", "s", "i", "o", "n">>
MsgTooLarge ==
    <<"R", "e", "q", "u", "e", "s", "t", SP, "e", "x", "c", "e", "e", "d", "e", "d", SP,
      "m", "a", "x", "i", "m", "u", "m", SP, "b", "u", "f", "f", "e", "r", SP,
      "s", "i", "z", "e">>

\* ------------------------------------------------------------------------
\* Query and header collection
\* ------------------------------------------------------------------------
\* An add that replaces the value of a key already present.
QueryAddLastWins(q, name, value) ==
    [k \in DOMAIN q \cup {name} |-> IF k = name THEN value ELSE q[k]]

\* Uri::Query::add: params.insert keeps the value of a key already present.
QueryAdd(q, name, value) ==
    [k \in DOMAIN q \cup {name} |-> IF k \in DOMAIN q THEN q[k] ELSE value]

\* Uri::Query::get: Some(value) or None.
QueryGet(q, name) ==
    IF name \in DOMAIN q THEN [some |-> TRUE, value |-> q[name]]
    ELSE [some |-> FALSE, value |-> <<>>]

ContentLengthName ==
    <<"C", "o", "n", "t", "e", "n", "t", "-", "L", "e", "n", "g", "t", "h">>
ContentTypeName ==
    <<"C", "o", "n", "t", "e", "n", "t", "-", "T", "y", "p", "e">>
HostName == <<"H", "o", "s", "t">>

\* Header::Registry::isRegistered
IsRegistered(name) == name \in {ContentLengthName, ContentTypeName, HostName}

\* The position of the header called name in the list hs, 0 when absent.
RECURSIVE HeaderIndex(_, _, _)
HeaderIndex(hs, name, i) ==
    IF i > Len(hs) THEN 0
    ELSE IF hs[i].name = name THEN i
    ELSE HeaderIndex(hs, name, i + 1)

\* Header::Collection::add / addRaw: a header of the same name is replaced,
\* a new one is appended.
HeadersAdd(hs, name, value) ==
    LET i == HeaderIndex(hs, name, 1)
        h == [name |-> name, value |-> value]
    IN IF i = 0 THEN Append(hs, h) ELSE [hs EXCEPT ![i] = h]

\* Header::Collection::tryGet<H>: the typed header of that name, if any.
HasHeader(hs, name) == IsRegistered(name) /\ HeaderIndex(hs, name, 1) # 0
HeaderValue(hs, name) == hs[HeaderIndex(hs, name, 1)].value

Digits == <<"0", "1", "2", "3", "4", "5", "6", "7", "8", "9">>
DigitSet == {Digits[i] : i \in 1..10}
DigitVal(d) == (CHOOSE i \in 1..10 : Digits[i] = d) - 1

\* Header::ContentLength::parseRaw: the number its leading decimal digits
\* denote.
RECURSIVE ParseUInt(_, _)
ParseUInt(s, acc) ==
    IF s = <<>> \/ Head(s) \notin DigitSet THEN acc
    ELSE ParseUInt(Tail(s), acc * 10 + DigitVal(Head(s)))

\* operator<< of a size_t or an int: the decimal digits of n.
RECURSIVE WriteUInt(_)
WriteUInt(n) ==
    IF n < 10 THEN <<Digits[n + 1]>>
    ELSE Append(WriteUInt(n \div 10), Digits[(n % 10) + 1])

\* ------------------------------------------------------------------------
\* Request and parser values
\* ------------------------------------------------------------------------
\* The value of Request::method_ before a request line has been parsed: the
\* constructor leaves it without a value, and nothing reads it before
\* RequestLineStep has stored one.
Indeterminate == "Indeterminate"

\* Request::Request(), Message::Message(): version_ is Http11, the
\* collections and strings are empty.
NewRequest ==
    [method   |-> Indeterminate,
     version  |-> "Http11",
     resource |-> <<>>,
     query    |-> <<>>,
     headers  |-> <<>>,
     body     |-> <<>>]

\* Parser::Parser(): an empty buffer, the cursor at its start, the first
\* step current, an empty request, and BodyStep::bytesRead at 0.
NewParser ==
    [buffer      |-> <<>>,
     cursor      |-> 0,
     currentStep |-> 0,
     request     |-> NewRequest,
     bytesRead   |-> 0]

\* What Step::apply leaves behind: the state it returns ("Again", "Next",
\* "Done", or "Raise" when it throws HttpError(code, msg)), the cursor, the
\* request and bytesRead.
Result(state, cursor, request, bytesRead) ==
    [state |-> state, cursor |-> cursor, request |-> request,
     bytesRead |-> bytesRead, code |-> 0, msg |-> <<>>]

\* Step::raise(msg, code = Code::Bad_Request): the exception unwinds through
\* the step's Revert guard, so the cursor is back at c0; stores made to the
\* request before the throw stay.
Raise(msg, c0, request, bytesRead) ==
    [state |-> "Raise", cursor |-> c0, request |-> request,
     bytesRead |-> bytesRead, code |-> BadRequest, msg |-> msg]

\* ------------------------------------------------------------------------
\* RequestLineStep::apply
\* ------------------------------------------------------------------------
\* The loop over Methods: the index of the first method whose literal
\* match_raw finds at the cursor, 0 when none does.
RECURSIVE FindMethod(_, _, _)
FindMethod(b, c, i) ==
    IF i > Len(Methods) THEN 0
    ELSE IF MatchRaw(Methods[i].str, b, c) THEN i
    ELSE FindMethod(b, c, i + 1)

\* The query loop "while ((n = cursor.current()) != ' ')": ok is FALSE when
\* a read returned Again; the pairs added before that stay in the query.
RECURSIVE QueryLoop(_, _, _)
QueryLoop(b, c, q) ==
    IF Current(b, c) = SP THEN [ok |-> TRUE, cursor |-> c, query |-> q]
    ELSE
      LET e == MatchUntil({"="}, b, c) IN
      IF e = -1 THEN [ok |-> FALSE, cursor |-> c, query |-> q]
      ELSE IF ~CanAdvance(b, e, 1) THEN [ok |-> FALSE, cursor |-> c, query |-> q]
      ELSE
        LET key == Span(b, c, e)
            f   == MatchUntil({SP, "&"}, b, e + 1)
        IN
        IF f = -1 THEN [ok |-> FALSE, cursor |-> c, query |-> q]
        ELSE
          LET q2 == QueryAdd(q, key, Span(b, e + 1, f)) IN
          IF Current(b, f) = "&"
          THEN IF ~CanAdvance(b, f, 1)
               THEN [ok |-> FALSE, cursor |-> c, query |-> q2]
               ELSE QueryLoop(b, f + 1, q2)
          ELSE QueryLoop(b, f, q2)

\* strncmp(s, lit, n) == 0, for a token s of n bytes none of which is NUL: a
\* byte of s past the literal's end meets the literal's terminating NUL and
\* differs from it.
StrNCmpEq(s, lit, n) == \A i \in 1..n : i <= Len(lit) /\ s[i] = lit[i]

\* The HTTP-Version part of RequestLineStep::apply (from "SP" on), with the
\* cursor at c on the SP that ends the request-target.
RequestLineVersion(b, c0, c, req, bytesRead) ==
    IF ~CanAdvance(b, c, 1) THEN Result("Again", c0, req, bytesRead)
    ELSE
      LET v == c + 1
          e == ScanEol(b, v)
      IN
      IF e = -1 THEN Result("Again", c0, req, bytesRead)
      ELSE
        LET ver  == Span(b, v, e)
            size == e - v
        IN
        IF StrNCmpEq(ver, Http10Str, size)
        THEN IF ~CanAdvance(b, e, 2)
             THEN Result("Again", c0, [req EXCEPT !.version = "Http10"], bytesRead)
             ELSE Result("Next", e + 2, [req EXCEPT !.version = "Http10"], bytesRead)
        ELSE IF StrNCmpEq(ver, Http11Str, size)
        THEN IF ~CanAdvance(b, e, 2)
             THEN Result("Again", c0, [req EXCEPT !.version = "Http11"], bytesRead)
             ELSE Result("Next", e + 2, [req EXCEPT !.version = "Http11"], bytesRead)
        ELSE Raise(MsgInvalidVersion, c0, req, bytesRead)

\* The request-target part of RequestLineStep::apply, with the cursor at c
\* after the SP that follows the method.
RequestLineTarget(b, c0, c, req, bytesRead) ==
    LET p == MatchUntil({"?", SP}, b, c) IN
    IF p = -1 THEN Result("Again", c0, req, bytesRead)
    ELSE
      LET req2 == [req EXCEPT !.resource = Span(b, c, p)] IN
      IF Current(b, p) = "?"
      THEN IF ~CanAdvance(b, p, 1) THEN Result("Again", c0, req2, bytesRead)
           ELSE
             LET ql   == QueryLoop(b, p + 1, req2.query)
                 req3 == [req2 EXCEPT !.query = ql.query]
             IN
             IF ~ql.ok THEN Result("Again", c0, req3, bytesRead)
             ELSE RequestLineVersion(b, c0, ql.cursor, req3, bytesRead)
      ELSE RequestLineVersion(b, c0, p, req2, bytesRead)

RequestLineStep(b, c0, req, bytesRead) ==
    LET m == FindMethod(b, c0, 1) IN
    IF m = 0 THEN Raise(MsgUnknownMethod, c0, req, bytesRead)
    ELSE
      LET req2 == [req EXCEPT !.method = Methods[m].repr]
          c1   == c0 + Len(Methods[m].str)
      IN
      IF Eof(b, c1) THEN Result("Again", c0, req2, bytesRead)
      ELSE IF Current(b, c1) # SP THEN Raise(MsgExpectedSP, c0, req2, bytesRead)
      ELSE IF ~CanAdvance(b, c1, 1) THEN Result("Again", c0, req2, bytesRead)
      ELSE RequestLineTarget(b, c0, c1 + 1, req2, bytesRead)

\* ------------------------------------------------------------------------
\* HeadersStep::apply
\* ------------------------------------------------------------------------
\* The loop "while (!cursor.eol())" with the cursor at c; hs are the headers
\* of the request, to which each complete field is added as it is read.
RECURSIVE HeadersLoop(_, _, _)
HeadersLoop(b, c, hs) ==
    IF Eol(b, c) THEN [ok |-> TRUE, cursor |-> c, headers |-> hs]
    ELSE
      LET colon == MatchUntil({":"}, b, c) IN
      IF colon = -1 THEN [ok |-> FALSE, cursor |-> c, headers |-> hs]
      ELSE IF ~CanAdvance(b, colon, 1) THEN [ok |-> FALSE, cursor |-> c, headers |-> hs]
      ELSE
        LET name  == Span(b, c, colon)
            start == SkipSpaces(b, colon + 1)
            e     == ScanEol(b, start)
        IN
        IF e = -1 THEN [ok |-> FALSE, cursor |-> c, headers |-> hs]
        ELSE
          LET hs2 == HeadersAdd(hs, name, Span(b, start, e)) IN
          IF ~CanAdvance(b, e, 2) THEN [ok |-> FALSE, cursor |-> c, headers |-> hs2]
          ELSE HeadersLoop(b, e + 2, hs2)

\* A headers step with the guard of each header field only: Again leaves
\* the cursor at the start of the field that is incomplete.
HeadersStepFieldGuard(b, c0, req, bytesRead) ==
    LET hl   == HeadersLoop(b, c0, req.headers)
        req2 == [req EXCEPT !.headers = hl.headers]
    IN
    IF hl.ok THEN Result("Next", hl.cursor, req2, bytesRead)
    ELSE Result("Again", hl.cursor, req2, bytesRead)

HeadersStep(b, c0, req, bytesRead) ==
    LET hl   == HeadersLoop(b, c0, req.headers)
        req2 == [req EXCEPT !.headers = hl.headers]
    IN
    IF hl.ok THEN Result("Next", hl.cursor, req2, bytesRead)
    ELSE Result("Again", c0, req2, bytesRead)

\* ------------------------------------------------------------------------
\* BodyStep::apply
\* ------------------------------------------------------------------------
\* size_t subtraction.
SizeSub(a, b) == (a - b) % SizeModulus

\* std::string::append(cursor.offset(from), n): the n bytes of the buffer
\* storage from position from on; storage past the fed bytes reads as NUL.
Storage(b, from, n) == [i \in 1..n |-> Current(b, from + i - 1)]

BodyStep(b, c, req, bytesRead) ==
    IF ~HasHeader(req.headers, ContentLengthName)
    THEN Result("Done", c, req, bytesRead)
    ELSE
      LET contentLength == ParseUInt(HeaderValue(req.headers, ContentLengthName), 0) IN
      IF bytesRead > 0
      THEN
        LET remaining == SizeSub(contentLength, bytesRead) IN
        IF ~CanAdvance(b, c, remaining)
        THEN
          LET available == Remaining(b, c) IN
          Result("Again", c + available,
                 [req EXCEPT !.body = @ \o Storage(b, c, available)],
                 bytesRead + available)
        ELSE
          \* append(cursor.offset(), remaining) reads at the cursor after it
          \* has advanced.
          Result("Done", c + remaining,
                 [req EXCEPT !.body = @ \o Storage(b, c + remaining, remaining)],
                 0)
      ELSE
        IF ~CanAdvance(b, c, 2) THEN Result("Again", c, req, bytesRead)
        ELSE
          LET start == c + 2 IN
          IF ~CanAdvance(b, start, contentLength)
          THEN
            LET available == Remaining(b, start) IN
            Result("Again", start + available,
                   [req EXCEPT !.body = @ \o Storage(b, start, available)],
                   bytesRead + available)
          ELSE
            Result("Done", start + contentLength,
                   [req EXCEPT !.body = @ \o Storage(b, start, contentLength)],
                   0)

\* ------------------------------------------------------------------------
\* Parser
\* ------------------------------------------------------------------------
\* allSteps[currentStep]->apply(cursor)
ApplyStep(p) ==
    CASE p.currentStep = 0 -> RequestLineStep(p.buffer, p.cursor, p.request, p.bytesRead)
      [] p.currentStep = 1 -> HeadersStep(p.buffer, p.cursor, p.request, p.bytesRead)
      [] OTHER             -> BodyStep(p.buffer, p.cursor, p.request, p.bytesRead)

\* Parser::parse: the parser after the call, with the state returned
\* ("Again" or "Done") or "Raise" and the HttpError thrown.
RECURSIVE Parse(_)
Parse(p) ==
    LET r  == ApplyStep(p)
        p2 == [p EXCEPT !.cursor = r.cursor, !.request = r.request,
                        !.bytesRead = r.bytesRead]
    IN
    IF r.state = "Next"
    THEN Parse([p2 EXCEPT !.currentStep = @ + 1])
    ELSE [parser |-> p2, state |-> r.state, code |-> r.code, msg |-> r.msg]

\* ArrayStreamBuf::feed: false, and nothing appended, when the bytes would
\* exceed the capacity.
CanFeed(p, data) == Len(p.buffer) + Len(data) <= MaxBuffer

\* Parser::feed, when it succeeds.
Feed(p, data) == [p EXCEPT !.buffer = @ \o data]

\* Parser::reset
Reset(p) ==
    [p EXCEPT !.buffer = <<>>,
              !.cursor = 0,
              !.currentStep = 0,
              !.request = [@ EXCEPT !.headers = <<>>,
                                    !.body = <<>>,
                                    !.resource = <<>>]]

\* ------------------------------------------------------------------------
\* Response
\* ------------------------------------------------------------------------
\* Response::Response(): bufSize(Const::MaxBuffer << 1)
BufSize == MaxBuffer * 2

\* operator<<(std::ostream&, Code): the reason phrase of a code.
CodeReason(code) ==
    CASE code = Ok -> <<"O", "K">>
      [] code = BadRequest -> <<"B", "a", "d", SP, "R", "e", "q", "u", "e", "s", "t">>
      [] code = RequestEntityTooLarge ->
           <<"R", "e", "q", "u", "e", "s", "t", SP, "E", "n", "t", "i", "t", "y", SP,
             "T", "o", "o", SP, "L", "a", "r", "g", "e">>
      [] OTHER ->
           <<"I", "n", "t", "e", "r", "n", "a", "l", SP, "S", "e", "r", "v", "e", "r", SP,
             "E", "r", "r", "o", "r">>

HttpPrefix == <<"H", "T", "T", "P", "/", "1", ".", "1", SP>>
ColonSP == <<":", SP>>

\* Mime::MediaType: its text; the default-constructed one is not valid.
NoMime == <<>>
MimeIsValid(mime) == mime # NoMime

\* The output stream over the scratch buffer: the bytes written, whether the
\* stream is still good, and whether the thread writing to it was lost.
NewStream == [out |-> <<>>, good |-> TRUE, lost |-> FALSE]

\* One write to the stream: it fails, and the stream stays failed, when the
\* bytes do not fit in the scratch buffer.
Write(st, bytes) ==
    IF st.good /\ Len(st.out) + Len(bytes) <= BufSize
    THEN [st EXCEPT !.out = @ \o bytes]
    ELSE [st EXCEPT !.good = FALSE]

\* crlf(os): os.write(CRLF, 2), after which control flows off the end of a
\* function declared to return the stream.  That is undefined; ret says what
\* the build makes of it: the call comes back to its caller (which never
\* reads the value returned), or it does not and the thread is lost.
Crlf(st, ret) ==
    IF ~st.good THEN st
    ELSE IF ret THEN Write(st, CRLF)
    ELSE [st EXCEPT !.good = FALSE, !.lost = TRUE]

\* writeHeader<H>(stream, args): "Name: ", the header's value, CRLF.
WriteHeader(st, name, value, ret) ==
    Crlf(Write(Write(st, name \o ColonSP), value), ret)

\* The loop over headers_.list() in Response::send.
RECURSIVE WriteHeaders(_, _, _)
WriteHeaders(st, hs, ret) ==
    IF hs = <<>> THEN st
    ELSE WriteHeaders(WriteHeader(st, Head(hs).name, Head(hs).value, ret),
                      Tail(hs), ret)

\* The status line of Response::send.
WriteStatusLine(st, code, ret) ==
    Crlf(Write(Write(Write(Write(st, HttpPrefix), WriteUInt(code)), <<SP>>),
               CodeReason(code)), ret)

\* A Content-Type part that writes the header line also when the collection
\* already has a Content-Type header.
SendContentTypeAlways(st, hs, mime, ret) ==
    IF ~MimeIsValid(mime) THEN [st |-> st, hs |-> hs]
    ELSE [st |-> WriteHeader(st, ContentTypeName, mime, ret),
          hs |-> IF HasHeader(hs, ContentTypeName)
                 THEN HeadersAdd(hs, ContentTypeName, mime) ELSE hs]

\* The Content-Type part of Response::send: the header collection after it
\* (setMime on a header already present) and the stream (a header written
\* when none is present).
SendContentType(st, hs, mime, ret) ==
    IF ~MimeIsValid(mime) THEN [st |-> st, hs |-> hs]
    ELSE IF HasHeader(hs, ContentTypeName)
    THEN [st |-> st, hs |-> HeadersAdd(hs, ContentTypeName, mime)]
    ELSE [st |-> WriteHeader(st, ContentTypeName, mime, ret), hs |-> hs]

\* A body part without the empty line between the Content-Length header and
\* the body.
SendBodyNoEmptyLine(st, body, ret) ==
    IF body # <<>>
    THEN Write(WriteHeader(st, ContentLengthName, WriteUInt(Len(body)), ret), body)
    ELSE Crlf(st, ret)

\* The body part of Response::send.
SendBody(st, body, ret) ==
    IF body # <<>>
    THEN Write(Crlf(WriteHeader(st, ContentLengthName, WriteUInt(Len(body)), ret),
                    ret), body)
    ELSE Crlf(st, ret)

\* Response::send(code, body, mime) on a response whose header collection is
\* hs: whether every write succeeded, whether the thread was lost in crlf,
\* the bytes in the scratch buffer, and the header collection afterwards.
\* When a write fails the send returns a rejected promise at once; the later
\* parts are not run.
Send(hs, code, body, mime, ret) ==
    LET s1 == WriteStatusLine(NewStream, code, ret)
        ct == SendContentType(s1, hs, mime, ret)
        s3 == WriteHeaders(ct.st, ct.hs, ret)
        s4 == SendBody(s3, body, ret)
    IN [good |-> s4.good, lost |-> s4.lost, out |-> s4.out,
        headers |-> IF s1.good THEN ct.hs ELSE hs]

\* Response::setMime
SetMime(hs, mime) == HeadersAdd(hs, ContentTypeName, mime)

\* ------------------------------------------------------------------------
\* The requests a client sends
\* ------------------------------------------------------------------------
\* A request as the client means it: the method and version tokens, the
\* path, the query pairs, the header fields and the body.
Req(method, resource, query, version, headers, body) ==
    [method |-> method, resource |-> resource, query |-> query,
     version |-> version, headers |-> headers, body |-> body]

RECURSIVE RenderQuery(_)
RenderQuery(qs) ==
    IF qs = <<>> THEN <<>>
    ELSE Head(qs)[1] \o <<"=">> \o Head(qs)[2]
         \o (IF Len(qs) > 1 THEN <<"&">> ELSE <<>>) \o RenderQuery(Tail(qs))

RECURSIVE RenderHeaders(_)
RenderHeaders(hs) ==
    IF hs = <<>> THEN <<>>
    ELSE Head(hs)[1] \o ColonSP \o Head(hs)[2] \o CRLF \o RenderHeaders(Tail(hs))

\* The position of the blank line's CRLF in the bytes of r, i.e. the number
\* of bytes of the request line and the header fields.
HeadLen(r) ==
    Len(r.method) + 1 + Len(r.resource)
    + (IF r.query = <<>> THEN 0 ELSE 1 + Len(RenderQuery(r.query)))
    + 1 + Len(r.version) + 2 + Len(RenderHeaders(r.headers))

\* The bytes of r on the wire:
\* METHOD SP path [ "?" query ] SP version CRLF *( name ": " value CRLF ) CRLF body
Render(r) ==
    r.method \o <<SP>> \o r.resource
    \o (IF r.query = <<>> THEN <<>> ELSE <<"?">> \o RenderQuery(r.query))
    \o <<SP>> \o r.version \o CRLF
    \o RenderHeaders(r.headers) \o CRLF \o r.body

MethodStrs == {Methods[i].str : i \in 1..Len(Methods)}
MethodRepr(str) == Methods[CHOOSE i \in 1..Len(Methods) : Methods[i].str = str].repr

RECURSIVE QueryOf(_, _)
QueryOf(qs, q) ==
    IF qs = <<>> THEN q
    ELSE QueryOf(Tail(qs),
                 IF Head(qs)[1] \in DOMAIN q THEN q
                 ELSE [k \in DOMAIN q \cup {Head(qs)[1]} |->
                          IF k = Head(qs)[1] THEN Head(qs)[2] ELSE q[k]])

\* The declared length of the body of r: its Content-Length, 0 without one.
DeclaredLength(r) ==
    LET cl == {i \in 1..Len(r.headers) : r.headers[i][1] = ContentLengthName} IN
    IF cl = {} THEN 0
    ELSE ParseUInt(r.headers[CHOOSE i \in cl : TRUE][2], 0)

\* r is a valid request: a method of the table, one of the two versions, and
\* a body of exactly Content-Length bytes.
Valid(r) ==
    /\ r.method \in MethodStrs
    /\ r.version \in {Http10Str, Http11Str}
    /\ Len(r.body) = DeclaredLength(r)

\* The request value a valid r stands for.
Expected(r) ==
    [method   |-> MethodRepr(r.method),
     version  |-> IF r.version = Http10Str THEN "Http10" ELSE "Http11",
     resource |-> r.resource,
     query    |-> QueryOf(r.query, <<>>),
     headers  |-> [i \in 1..Len(r.headers) |->
                      [name |-> r.headers[i][1], value |-> r.headers[i][2]]],
     body     |-> r.body]

GET == <<"G", "E", "T">>
POST == <<"P", "O", "S", "T">>

\* The number of body bytes of the request that does not fit in the buffer.
BigBody == 20

\* The requests of the model.  1-3 are valid and fit in the buffer; 4 is
\* valid and larger than the buffer; 5-9 are malformed.
Requests == <<
    \* 1: "GET /h HTTP/1.1\r\nHost: x\r\n\r\n"
    Req(GET, <<"/", "h">>, <<>>, Http11Str, << <<HostName, <<"x">>>> >>, <<>>),
    \* 2: "POST /x?a=1&b=2 HTTP/1.0\r\nContent-Length: 3\r\n\r\nabc"
    Req(POST, <<"/", "x">>, << <<<<"a">>, <<"1">>>>, <<<<"b">>, <<"2">>>> >>, Http10Str,
        << <<ContentLengthName, <<"3">>>> >>, <<"a", "b", "c">>),
    \* 3: "GET /?a=2&a=3 HTTP/1.1\r\n\r\n"
    Req(GET, <<"/">>, << <<<<"a">>, <<"2">>>>, <<<<"a">>, <<"3">>>> >>, Http11Str,
        <<>>, <<>>),
    \* 4: "POST / HTTP/1.1\r\nContent-Length: 20\r\n\r\n" and 20 bytes
    Req(POST, <<"/">>, <<>>, Http11Str,
        << <<ContentLengthName, WriteUInt(BigBody)>> >>, [i \in 1..BigBody |-> "z"]),
    \* 5: "FOO / HTTP/1.1\r\n\r\n"
    Req(<<"F", "O", "O">>, <<"/">>, <<>>, Http11Str, <<>>, <<>>),
    \* 6: "GET / HTTP/2.0\r\n\r\n"
    Req(GET, <<"/">>, <<>>, <<"H", "T", "T", "P", "/", "2", ".", "0">>, <<>>, <<>>),
    \* 7: "GET / HTTP\r\n\r\n"
    Req(GET, <<"/">>, <<>>, <<"H", "T", "T", "P">>, <<>>, <<>>),
    \* 8: "GET / \r\n\r\n"
    Req(GET, <<"/">>, <<>>, <<>>, <<>>, <<>>),
    \* 9: "GET/ / HTTP/1.1\r\n\r\n"
    Req(<<"G", "E", "T", "/">>, <<"/">>, <<>>, Http11Str, <<>>, <<>>),
    \* 10: "POST / HTTP/1.1\r\nContent-Length: 1\r\n\r\nx" followed by "GE",
    \* the first bytes of the client's next request
    Req(POST, <<"/">>, <<>>, Http11Str,
        << <<ContentLengthName, <<"1">>>> >>, <<"x", "G", "E">>) >>

NumRequests == Len(Requests)

\* The bytes of each request.
Bytes == [i \in 1..NumRequests |-> Render(Requests[i])]

\* ------------------------------------------------------------------------
\* Polling::Epoll (src/src/os.cc)
\* ------------------------------------------------------------------------
\* NotifyOn
NotifyOnRead == "Read"
NotifyOnWrite == "Write"
NotifyOnHangup == "Hangup"
NotifyOn == {NotifyOnRead, NotifyOnWrite, NotifyOnHangup}

\* The bits of the events field of an epoll_event; a mask is a set of bits.
EPOLLIN == "EPOLLIN"
EPOLLOUT == "EPOLLOUT"
EPOLLHUP == "EPOLLHUP"
EPOLLET == "EPOLLET"
EPOLLONESHOT == "EPOLLONESHOT"

\* Mode
Level == "Level"
Edge == "Edge"

\* Const::MaxEvents, the length of the array poll collects the events in,
\* scaled down so that a poll can ask for more events than it holds.
MaxEvents == 1

\* Epoll::toEpollEvents(interest).  "int events;" is not initialised and the
\* bits are or-ed into it: junk is what the variable holds at entry.
ToEpollEvents(interest, junk) ==
    junk
    \cup (IF NotifyOnRead \in interest THEN {EPOLLIN} ELSE {})
    \cup (IF NotifyOnWrite \in interest THEN {EPOLLOUT} ELSE {})
    \cup (IF NotifyOnHangup \in interest THEN {EPOLLHUP} ELSE {})

\* Epoll::toNotifyOn(events)
ToNotifyOn(events) ==
    (IF EPOLLIN \in events THEN {NotifyOnRead} ELSE {})
    \cup (IF EPOLLOUT \in events THEN {NotifyOnWrite} ELSE {})
    \cup (IF EPOLLHUP \in events THEN {NotifyOnHangup} ELSE {})

\* The epoll_event that Epoll::addFd hands to epoll_ctl.  A tag is a 64-bit
\* value, held as its two 32-bit halves; data.u64 takes it as it is.
AddFdEvent(interest, tag, mode, junk) ==
    [events |-> ToEpollEvents(interest, junk)
                \cup (IF mode = Edge THEN {EPOLLET} ELSE {}),
     data |-> tag]

\* The epoll_event that Epoll::addFdOneShot hands to epoll_ctl.
AddFdOneShotEvent(interest, tag, mode, junk) ==
    [events |-> ToEpollEvents(interest, junk) \cup {EPOLLONESHOT}
                \cup (IF mode = Edge THEN {EPOLLET} ELSE {}),
     data |-> tag]

\* The epoll_event that Epoll::rearmFd hands to epoll_ctl.
RearmFdEvent(interest, tag, mode, junk) ==
    [events |-> ToEpollEvents(interest, junk)
                \cup (IF mode = Edge THEN {EPOLLET} ELSE {}),
     data |-> tag]

\* The interest list of the epoll instance: for each descriptor its
\* epoll_event and whether it is enabled, or NoEntry.
NoEntry == [events |-> {}, data |-> <<0, 0>>, on |-> FALSE, in |-> FALSE]
Entry(ev) == [events |-> ev.events, data |-> ev.data, on |-> TRUE, in |-> TRUE]

\* epoll_ctl(epoll_fd, EPOLL_CTL_ADD / EPOLL_CTL_MOD, fd, &ev): the entry of
\* fd is set from ev and enabled.
CtlAdd(list, fd, ev) == [list EXCEPT ![fd] = Entry(ev)]
CtlMod(list, fd, ev) == [list EXCEPT ![fd] = Entry(ev)]

\* Epoll::removeFd: epoll_ctl(epoll_fd, EPOLL_CTL_DEL, fd, &ev).
RemoveFd(list, fd) == [list EXCEPT ![fd] = NoEntry]

\* What epoll_wait reports for an entry whose descriptor is in the
\* conditions conds (a set of EPOLLIN, EPOLLOUT, EPOLLHUP): the conditions
\* asked for; a hang-up is reported whether asked for or not.
Reported(entry, conds) == conds \cap (entry.events \cup {EPOLLHUP})

\* The descriptors epoll_wait has something to report for.
ReadyFds(list, conds) ==
    {fd \in DOMAIN list :
        list[fd].in /\ list[fd].on /\ Reported(list[fd], conds[fd]) # {}}

\* The interest list after epoll_wait reported the descriptors in chosen: a
\* one-shot entry is disabled by its report.
AfterWait(list, chosen) ==
    [fd \in DOMAIN list |->
        IF fd \in chosen /\ EPOLLONESHOT \in list[fd].events
        THEN [list[fd] EXCEPT !.on = FALSE] ELSE list[fd]]

\* Event::Event(Tag): an event with the tag and no flag set.
NewEvent(tag) == [tag |-> tag, flags |-> {}]

\* A loop body that keeps the low half of the tag.
PollEventLowHalf(ev) == NewEvent(<<0, ev.data[2]>>)

\* The loop body of Epoll::poll for one epoll_event: an Event is built from
\* the tag and given the flags, and then "events.push_back(tag)" appends an
\* Event converted from the tag.
PollEvent(ev) == NewEvent(ev.data)

\* Epoll::Epoll.  list is the interest list of the epoll instance, events
\* what the last poll appended to the caller's vector (with, for each
\* event, the descriptor and the mask epoll_wait reported), lost whether the
\* thread was lost.  For each descriptor: supplied is the tag of the last
\* successful addFd, addFdOneShot or rearmFd, oneShot whether it was added
\* with addFdOneShot, and shots the events delivered for such a descriptor
\* since it was last armed (0, 1, or 2 for more).  call is the last addFd,
\* addFdOneShot, rearmFd or removeFd if no poll came after it.
NoCall == [op |-> "None", fd |-> 0, interest |-> {}, mode |-> Level]

NewEpoll ==
    [list |-> [fd \in {3, 4} |-> NoEntry],
     events |-> <<>>,
     lost |-> FALSE,
     call |-> NoCall,
     supplied |-> [fd \in {3, 4} |-> <<0, 0>>],
     oneShot |-> [fd \in {3, 4} |-> FALSE],
     shots |-> [fd \in {3, 4} |-> 0]]

\* Query::Query(): params is empty.  adds are the (name, value) pairs of
\* the add calls made since, got the name and the result of the last get
\* if no add came after it.
NoGet == [called |-> FALSE, name |-> <<>>, result |-> QueryGet(<<>>, <<>>)]
NewQuery == [params |-> <<>>, adds |-> <<>>, got |-> NoGet]

\* ------------------------------------------------------------------------
\* State
\* ------------------------------------------------------------------------
VARIABLES
    parser,     \* the Private::Parser of the connection
    cur,        \* the request the client is sending (an index of Requests, 0: none yet)
    wire,       \* the bytes of that request that have not arrived yet
    outcome,    \* what the last call came to: "None", "Reset", "Again", "Done",
                \* "Raise" (an HttpError from the parser), "Overflow" (feed
                \* returned false), "Exception" (the handler threw a
                \* std::exception), "Escaped" (it threw something else),
                \* "Lost" (the thread did not come back from crlf)
    raised,     \* the code and reason of the HttpError of the last call, or
                \* 500 and the message of the exception the handler threw
    invoked,    \* the onRequest calls of the last onInput: the request handed
                \* over and the buffer it was parsed from
    sent,       \* the byte strings the last call handed to the peer's send
    resets,     \* resets of the parser made by the driver since it was
                \* constructed
    nfed,       \* chunks of the current request fed so far: 0, 1, or 2 for more
    deliveries, \* onRequest calls since the current request began: 0, 1, or 2 for more
    response,   \* the Response of the serializer specification
    epoll,      \* the Polling::Epoll of the notifier specification
    uriQuery    \* the Uri::Query of the query specification

vars == <<parser, cur, wire, outcome, raised, invoked, sent, resets, nfed,
          deliveries, response, epoll, uriQuery>>

NoError == [code |-> 0, msg |-> <<>>]

Bump(n) == IF n < 2 THEN n + 1 ELSE 2

\* ------------------------------------------------------------------------
\* Handler::onInput
\* ------------------------------------------------------------------------
TextPlain == <<"t", "e", "x", "t", "/", "p", "l", "a", "i", "n">>
TextHtml == <<"t", "e", "x", "t", "/", "h", "t", "m", "l">>

\* What the user's onRequest does with the request and the response: it
\* sends an answer, throws a std::exception, sends and then throws one, or
\* throws a value that is not a std::exception.  The message of "throwLong"
\* does not fit in a response's scratch buffer.
HandlerBehaviours == {"send", "throw", "sendThrow", "throwLong", "throwOther"}
HandlerSends(h) == h \in {"send", "sendThrow"}
HandlerThrows(h) == h \in {"throw", "sendThrow", "throwLong"}
What(h) ==
    IF h = "throwLong" THEN [i \in 1..BufSize |-> "e"] ELSE <<"o", "o", "p", "s">>
HandlerBody == <<"h", "i">>

\* A hand-over that passes the scratch buffer on although a write failed.
HandoffTruncated(r, peer, dies) ==
    IF r.lost THEN [result |-> "Lost", calls |-> <<>>]
    ELSE IF peer # "live" THEN [result |-> "BrokenPipe", calls |-> <<>>]
    ELSE IF dies THEN [result |-> "NullPeer", calls |-> <<>>]
    ELSE [result |-> IF r.good THEN "Sent" ELSE "NoSpace", calls |-> <<r.out>>]

\* A hand-over that does not test whether the peer is still there.
HandoffUnchecked(r, peer, dies) ==
    IF ~r.good
    THEN [result |-> IF r.lost THEN "Lost" ELSE "NoSpace", calls |-> <<>>]
    ELSE [result |-> "Sent", calls |-> <<r.out>>]

\* The end of Response::send for the stream r the writes left: each OUT
\* returns a rejected promise ("NoSpace") as soon as the stream has failed;
\* otherwise "return peer()->send(buffer_.get(), obuf.len())".
\* Response::peer() throws std::runtime_error("Broken pipe") when
\* peer_.expired(), which is so when no peer was associated or the peer was
\* destroyed, and returns peer_.lock() otherwise.  peer is the state of the
\* peer when expired() is called; dies says that its last owner lets go of
\* it between expired() and lock(), so that lock() returns a null pointer
\* and send is called through it: that is undefined and reaches no
\* transport ("NullPeer").  calls are the byte strings handed to the send of
\* a peer.
Handoff(r, peer, dies) ==
    IF ~r.good
    THEN [result |-> IF r.lost THEN "Lost" ELSE "NoSpace", calls |-> <<>>]
    ELSE IF peer # "live" THEN [result |-> "BrokenPipe", calls |-> <<>>]
    ELSE IF dies THEN [result |-> "NullPeer", calls |-> <<>>]
    ELSE [result |-> "Sent", calls |-> <<r.out>>]

\* What a send on a new Response associated with the peer of the connection
\* hands to the peer: one byte string, or nothing when a write did not fit
\* or the thread was lost.  The caller of onInput holds the peer, so it is
\* live throughout.
Transport(hs, code, body, mime, ret) ==
    LET r == Send(hs, code, body, mime, ret) IN
    [sent |-> Handoff(r, "live", FALSE).calls, lost |-> r.lost]

\* catch (const HttpError& err): respond with the error's code and reason,
\* then reset the parser.
CatchHttpError(p, code, reason, ret) ==
    LET t == Transport(<<>>, code, reason, NoMime, ret) IN
    [parser |-> IF t.lost THEN p ELSE Reset(p), sent |-> t.sent, lost |-> t.lost]

\* catch (const std::exception& e): respond with Internal_Server_Error and
\* e.what(), then reset the parser.
CatchException(p, what, ret) ==
    LET t == Transport(<<>>, InternalServerError, what, NoMime, ret) IN
    [parser |-> IF t.lost THEN p ELSE Reset(p), sent |-> t.sent, lost |-> t.lost]

\* The state == Done branch: onRequest(parser.request, response), then
\* parser.reset(); a std::exception of the handler goes to the catch clause,
\* any other value it throws leaves onInput.
HandleDone(p, h, ret) ==
    LET call == [request |-> p.request, buffer |-> p.buffer]
        out  == IF HandlerSends(h)
                THEN Transport(<<>>, Ok, HandlerBody, TextPlain, ret)
                ELSE [sent |-> <<>>, lost |-> FALSE]
    IN
    IF out.lost
    THEN [parser |-> p, invoked |-> <<call>>, sent |-> <<>>,
          outcome |-> "Lost", raised |-> NoError]
    ELSE IF h = "throwOther"
    THEN [parser |-> p, invoked |-> <<call>>, sent |-> out.sent,
          outcome |-> "Escaped", raised |-> NoError]
    ELSE IF HandlerThrows(h)
    THEN LET c == CatchException(p, What(h), ret) IN
         [parser |-> c.parser, invoked |-> <<call>>, sent |-> out.sent \o c.sent,
          outcome |-> IF c.lost THEN "Lost" ELSE "Exception",
          raised |-> [code |-> InternalServerError, msg |-> What(h)]]
    ELSE [parser |-> Reset(p), invoked |-> <<call>>, sent |-> out.sent,
          outcome |-> "Done", raised |-> NoError]

\* The try block of Handler::onInput up to the test of the state: feed, and
\* when feed succeeds, parse.  fed is FALSE when feed returned false.
FeedParse(p, data) ==
    IF ~CanFeed(p, data)
    THEN [fed |-> FALSE, parser |-> p, state |-> "Overflow", code |-> 0, msg |-> <<>>]
    ELSE LET r == Parse(Feed(p, data)) IN
         [fed |-> TRUE, parser |-> r.parser, state |-> r.state,
          code |-> r.code, msg |-> r.msg]

\* The rest of Handler::onInput, with a handler that behaves as h, in a
\* build whose crlf comes back (ret) or does not.
OnInputRest(r, h, ret) ==
    CASE ~r.fed ->
           LET c == CatchHttpError(Reset(r.parser), RequestEntityTooLarge,
                                   MsgTooLarge, ret) IN
           [parser |-> c.parser, invoked |-> <<>>, sent |-> c.sent,
            outcome |-> IF c.lost THEN "Lost" ELSE "Overflow",
            raised |-> [code |-> RequestEntityTooLarge, msg |-> MsgTooLarge]]
      [] r.fed /\ r.state = "Done" -> HandleDone(r.parser, h, ret)
      [] r.fed /\ r.state = "Raise" ->
           LET c == CatchHttpError(r.parser, r.code, r.msg, ret) IN
           [parser |-> c.parser, invoked |-> <<>>, sent |-> c.sent,
            outcome |-> IF c.lost THEN "Lost" ELSE "Raise",
            raised |-> [code |-> r.code, msg |-> r.msg]]
      [] OTHER ->
           [parser |-> r.parser, invoked |-> <<>>, sent |-> <<>>,
            outcome |-> "Again", raised |-> NoError]

\* Handler::onInput(buffer, len, peer) on the parser p of the peer.
OnInputCall(p, data, h, ret) == OnInputRest(FeedParse(p, data), h, ret)

\* The handler runs only when the parser returned Done.
Handlers(r) == IF r.fed /\ r.state = "Done" THEN HandlerBehaviours ELSE {"send"}

\* What crlf may do in the call: it is reached only when a response is sent.
CrlfReturns(r, h) ==
    IF (r.fed /\ r.state = "Again") \/ (r.fed /\ r.state = "Done" /\ h = "throwOther")
    THEN {TRUE} ELSE BOOLEAN

\* The request whose bytes arrive next and those bytes: the rest of the
\* current request, or any request when the current one has arrived.
NextRequests == IF wire = <<>> THEN 1..NumRequests ELSE {cur}
Pending(r) == IF wire = <<>> THEN Bytes[r] ELSE wire

\* The number of bytes of the request line of r, its CRLF included.
LineLen(r) ==
    Len(r.method) + 1 + Len(r.resource)
    + (IF r.query = <<>> THEN 0 ELSE 1 + Len(RenderQuery(r.query)))
    + 1 + Len(r.version) + 2

\* The distance between two places in a body where a read may end.
BodyStride == 6

\* Where a read of the connection may end, as a number of bytes of request
\* i: in and right after the method, around the end of the request line,
\* around the blank line and the first body bytes, further on in the body,
\* and at the end of the request.
ReadEnds(i) ==
    LET r == Requests[i]
        n == Len(Bytes[i])
        m == Len(r.method)
        l == LineLen(r)
        h == HeadLen(r)
    IN {e \in 1..n :
          \/ e \in {1, m, m + 1, l - 3, l - 1, l, h - 1, h + 1, h + 2, h + 3, n - 1, n}
          \/ e > h + 2 /\ (e - h - 2) % BodyStride = 0}

\* The sizes of the next read of request i, of which w is still to arrive.
ReadSizes(i, w) == {e - (Len(Bytes[i]) - Len(w)) : e \in ReadEnds(i)} \cap (1..Len(w))

\* Handler::onConnection: a new Parser is attached to the peer.
OnConnection ==
    /\ parser' = NewParser
    /\ cur' = 0
    /\ wire' = <<>>
    /\ outcome' = "None"
    /\ raised' = NoError
    /\ invoked' = <<>>
    /\ sent' = <<>>
    /\ resets' = 0
    /\ nfed' = 0
    /\ deliveries' = 0
    /\ UNCHANGED <<response, epoll, uriQuery>>

\* Handler::onInput with the next k bytes of the client's stream.  The
\* connection is followed no further once a thread was lost or an exception
\* left onInput.
OnInput ==
    /\ outcome \notin {"Lost", "Escaped"}
    /\ \E r \in NextRequests : \E k \in ReadSizes(r, Pending(r)) :
       \E pr \in {FeedParse(parser, SubSeq(Pending(r), 1, k))} :
       \E h \in Handlers(pr) : \E ret \in CrlfReturns(pr, h) :
       \E c \in {OnInputRest(pr, h, ret)} :
         /\ c.parser.bytesRead <= MaxBytesRead
         /\ parser' = c.parser
         /\ cur' = r
         /\ wire' = SubSeq(Pending(r), k + 1, Len(Pending(r)))
         /\ outcome' = c.outcome
         /\ raised' = c.raised
         /\ invoked' = c.invoked
         /\ sent' = c.sent
         /\ nfed' = 0
         /\ deliveries' = (IF wire = <<>> THEN 0 ELSE deliveries)
                          + (IF Len(c.invoked) > 0 /\ (wire = <<>> \/ deliveries < 2)
                             THEN 1 ELSE 0)
         /\ UNCHANGED <<resets, response, epoll, uriQuery>>

\* Response::Response() and what the last send on it did: the arguments, had
\* (a Content-Type header was in the collection before the call), result
\* ("Sent": the scratch slice went to the peer's send; "NoSpace": a write did
\* not fit and the promise was rejected; "Lost": the thread did not come back
\* from crlf; "BrokenPipe": Response::peer threw; "NullPeer": send was
\* called through a null pointer), calls, the byte strings handed to a
\* peer's send, and out, the bytes handed over if any.  peer is the peer the
\* response refers to ("none": never associated, "live", "gone": destroyed)
\* and peerWas its state when the last send was called.
NewResponse ==
    [headers |-> <<>>, result |-> "None", out |-> <<>>, calls |-> <<>>,
     code |-> 0, body |-> <<>>, mime |-> NoMime, had |-> FALSE,
     peer |-> "none", peerWas |-> "none"]

Init ==
    /\ parser = NewParser
    /\ cur = 0
    /\ wire = <<>>
    /\ outcome = "None"
    /\ raised = NoError
    /\ invoked = <<>>
    /\ sent = <<>>
    /\ resets = 0
    /\ nfed = 0
    /\ deliveries = 0
    /\ response = NewResponse
    /\ epoll = NewEpoll
    /\ uriQuery = NewQuery

Next == OnConnection \/ OnInput

Spec == Init /\ [][Next]_vars

\* ------------------------------------------------------------------------
\* The parser driven directly: construct, feed and parse, reset
\* ------------------------------------------------------------------------
\* The number of resets of one parser the driver specification follows.
MaxResets == 1

Fresh == resets = 0

\* Parser::Parser(), for a client that will send request r; the
\* specification follows one parser from its construction.
ParserNew ==
    \E r \in 1..NumRequests :
      /\ cur = 0
      /\ parser' = NewParser
      /\ cur' = r
      /\ wire' = Bytes[r]
      /\ outcome' = "None"
      /\ raised' = NoError
      /\ resets' = 0
      /\ nfed' = 0
      /\ UNCHANGED <<invoked, sent, deliveries, response, epoll, uriQuery>>

\* Parser::feed of the next k bytes of the request and, when it returns
\* true, Parser::parse.  Nothing is fed after Done, after an HttpError or
\* after a failed feed; the caller resets first.
ParserFeed ==
    /\ wire # <<>>
    /\ outcome \in {"None", "Reset", "Again"}
    /\ \E k \in 1..Len(wire) :
       \E pr \in {FeedParse(parser, SubSeq(wire, 1, k))} :
         /\ parser' = pr.parser
         /\ wire' = SubSeq(wire, k + 1, Len(wire))
         /\ outcome' = pr.state
         /\ raised' = [code |-> pr.code, msg |-> pr.msg]
         /\ nfed' = Bump(nfed)
         /\ UNCHANGED <<cur, resets, invoked, sent, deliveries, response, epoll, uriQuery>>

\* Parser::reset, in any state; the client then sends request r.
ParserReset ==
    /\ resets < MaxResets
    /\ \E r \in 1..NumRequests :
         /\ parser' = Reset(parser)
         /\ cur' = r
         /\ wire' = Bytes[r]
         /\ outcome' = "Reset"
         /\ raised' = NoError
         /\ resets' = resets + 1
         /\ nfed' = 0
         /\ UNCHANGED <<invoked, sent, deliveries, response, epoll, uriQuery>>

NextParser == ParserNew \/ ParserFeed \/ ParserReset

SpecParser == Init /\ [][NextParser]_vars

\* ------------------------------------------------------------------------
\* The response serializer driven directly
\* ------------------------------------------------------------------------
Codes == {Ok, BadRequest, RequestEntityTooLarge, InternalServerError}
Mimes == {NoMime, TextPlain, TextHtml}
\* The bodies sent: none, "hi", and one that fills the scratch buffer.
Bodies == {<<>>, HandlerBody, [i \in 1..BufSize |-> "b"]}
\* The headers a handler adds through Response::headers(); the long value
\* fills most of the scratch buffer.
LongValue == [i \in 1..(BufSize - 40) |-> "v"]
UserHeaders == {[name |-> HostName, value |-> <<"x">>],
                [name |-> <<"X", "-", "A">>, value |-> <<"1">>],
                [name |-> <<"X", "-", "A">>, value |-> LongValue]}

\* The response r with the record of its last send dropped: the record
\* describes the response only until it is changed again.
Unsent(r) ==
    [NewResponse EXCEPT !.headers = r.headers, !.peer = r.peer]

\* Response::Response()
ResponseNew ==
    /\ response' = NewResponse
    /\ UNCHANGED <<parser, cur, wire, outcome, raised, invoked, sent, resets,
                   nfed, deliveries, epoll, uriQuery>>

\* Response::associatePeer(peer) with a live peer; it throws when a peer that
\* is still there is already associated.
ResponseAssociatePeer ==
    /\ response.peer # "live"
    /\ response' = [Unsent(response) EXCEPT !.peer = "live"]
    /\ UNCHANGED <<parser, cur, wire, outcome, raised, invoked, sent, resets,
                   nfed, deliveries, epoll, uriQuery>>

\* The last owner of the peer lets go of it (the connection is closed after
\* the handler kept the response).
PeerDestroyed ==
    /\ response.peer = "live"
    /\ response' = [Unsent(response) EXCEPT !.peer = "gone"]
    /\ UNCHANGED <<parser, cur, wire, outcome, raised, invoked, sent, resets,
                   nfed, deliveries, epoll, uriQuery>>

\* Response::setMime(mime)
ResponseSetMime ==
    \E m \in Mimes \ {NoMime} :
      /\ response' = [Unsent(response) EXCEPT !.headers = SetMime(@, m)]
      /\ UNCHANGED <<parser, cur, wire, outcome, raised, invoked, sent, resets,
                     nfed, deliveries, epoll, uriQuery>>

\* Response::headers().add(header)
ResponseAddHeader ==
    \E h \in UserHeaders :
      /\ response' = [Unsent(response) EXCEPT !.headers = HeadersAdd(@, h.name, h.value)]
      /\ UNCHANGED <<parser, cur, wire, outcome, raised, invoked, sent, resets,
                     nfed, deliveries, epoll, uriQuery>>

\* Response::send(code, body, mime).
ResponseSend ==
    \E code \in Codes : \E body \in Bodies : \E mime \in Mimes :
    \E ret \in BOOLEAN :
    \E r \in {Send(response.headers, code, body, mime, ret)} :
    \E dies \in (IF r.good /\ response.peer = "live" THEN BOOLEAN ELSE {FALSE}) :
    \E h \in {Handoff(r, response.peer, dies)} :
      /\ response' = [headers |-> r.headers,
                      result  |-> h.result,
                      out     |-> IF h.calls = <<>> THEN <<>> ELSE h.calls[1],
                      calls   |-> h.calls,
                      code    |-> code,
                      body    |-> body,
                      mime    |-> mime,
                      had     |-> HasHeader(response.headers, ContentTypeName),
                      peer    |-> IF dies THEN "gone" ELSE response.peer,
                      peerWas |-> response.peer]
      /\ UNCHANGED <<parser, cur, wire, outcome, raised, invoked, sent, resets,
                     nfed, deliveries, epoll, uriQuery>>

NextResponse ==
    \/ ResponseNew
    \/ ResponseAssociatePeer
    \/ PeerDestroyed
    \/ ResponseSetMime
    \/ ResponseAddHeader
    \/ ResponseSend

SpecResponse == Init /\ [][NextResponse]_vars

\* ------------------------------------------------------------------------
\* The notifier specification: one Polling::Epoll, the calls a worker
\* makes on it, and the epoll instance behind it
\* ------------------------------------------------------------------------
Fds == DOMAIN NewEpoll.list
Interests == {{NotifyOnRead}, {NotifyOnWrite, NotifyOnHangup}}
Modes == {Level, Edge}
Tags == {<<0, 1>>, <<1, 0>>}

\* What the uninitialised "int events" of toEpollEvents may hold: nothing,
\* or bits that the interest did not ask for.
Junk == {{}, {EPOLLOUT, EPOLLONESHOT}}

\* The conditions a descriptor may be in when epoll_wait looks at it.
Conditions == {{}, {EPOLLIN}, {EPOLLOUT}, {EPOLLIN, EPOLLOUT, EPOLLHUP}}

\* The orders in which epoll_wait may write the events of the descriptors
\* in S.
Orders(S) ==
    {o \in [1..Cardinality(S) -> S] : \A fd \in S : \E i \in DOMAIN o : o[i] = fd}

\* The shots of a descriptor after one more event was delivered for it;
\* they are counted for the descriptors added with addFdOneShot.
Shot(oneShot, n) == IF ~oneShot THEN 0 ELSE IF n >= 2 THEN 2 ELSE n + 1

\* A new Epoll replaces the one that was there.
EpollNew ==
    /\ epoll' = NewEpoll
    /\ UNCHANGED <<parser, cur, wire, outcome, raised, invoked, sent, resets,
                   nfed, deliveries, response, uriQuery>>

\* Epoll::addFd(fd, interest, tag, mode), of a descriptor that is not in
\* the interest list (epoll_ctl fails otherwise and TRY throws).
EpollAddFd ==
    /\ ~epoll.lost
    /\ \E fd \in Fds, interest \in Interests, tag \in Tags, mode \in Modes,
          junk \in Junk :
          /\ ~epoll.list[fd].in
          /\ epoll' = [epoll EXCEPT
                 !.list = CtlAdd(@, fd, AddFdEvent(interest, tag, mode, junk)),
                 !.events = <<>>,
                 !.call = [op |-> "addFd", fd |-> fd, interest |-> interest,
                           mode |-> mode],
                 !.supplied[fd] = tag,
                 !.oneShot[fd] = FALSE,
                 !.shots[fd] = 0]
    /\ UNCHANGED <<parser, cur, wire, outcome, raised, invoked, sent, resets,
                   nfed, deliveries, response, uriQuery>>

\* Epoll::addFdOneShot(fd, interest, tag, mode), of a descriptor that is
\* not in the interest list.
EpollAddFdOneShot ==
    /\ ~epoll.lost
    /\ \E fd \in Fds, interest \in Interests, tag \in Tags, mode \in Modes,
          junk \in Junk :
          /\ ~epoll.list[fd].in
          /\ epoll' = [epoll EXCEPT
                 !.list = CtlAdd(@, fd,
                                 AddFdOneShotEvent(interest, tag, mode, junk)),
                 !.events = <<>>,
                 !.call = [op |-> "addFdOneShot", fd |-> fd,
                           interest |-> interest, mode |-> mode],
                 !.supplied[fd] = tag,
                 !.oneShot[fd] = TRUE,
                 !.shots[fd] = 0]
    /\ UNCHANGED <<parser, cur, wire, outcome, raised, invoked, sent, resets,
                   nfed, deliveries, response, uriQuery>>

\* Epoll::removeFd(fd), of a descriptor that is in the interest list.
EpollRemoveFd ==
    /\ ~epoll.lost
    /\ \E fd \in Fds :
          /\ epoll.list[fd].in
          /\ epoll' = [epoll EXCEPT
                 !.list = RemoveFd(@, fd),
                 !.events = <<>>,
                 !.call = [NoCall EXCEPT !.op = "removeFd", !.fd = fd],
                 !.supplied[fd] = <<0, 0>>,
                 !.oneShot[fd] = FALSE,
                 !.shots[fd] = 0]
    /\ UNCHANGED <<parser, cur, wire, outcome, raised, invoked, sent, resets,
                   nfed, deliveries, response, uriQuery>>

\* Epoll::rearmFd(fd, interest, tag, mode), of a descriptor that is in the
\* interest list.
EpollRearmFd ==
    /\ ~epoll.lost
    /\ \E fd \in Fds, interest \in Interests, tag \in Tags, mode \in Modes,
          junk \in Junk :
          /\ epoll.list[fd].in
          /\ epoll' = [epoll EXCEPT
                 !.list = CtlMod(@, fd, RearmFdEvent(interest, tag, mode, junk)),
                 !.events = <<>>,
                 !.call = [op |-> "rearmFd", fd |-> fd, interest |-> interest,
                           mode |-> mode],
                 !.supplied[fd] = tag,
                 !.shots[fd] = 0]
    /\ UNCHANGED <<parser, cur, wire, outcome, raised, invoked, sent, resets,
                   nfed, deliveries, response, uriQuery>>

\* Epoll::poll(events, maxEvents, timeout) with an empty vector.
\* epoll_wait writes at most maxEvents events into evs, an array of
\* MaxEvents elements: writing more overruns it, after which the call may
\* go on as if nothing had happened or the thread is lost.
EpollPoll ==
    /\ ~epoll.lost
    /\ \E maxEvents \in 1..(MaxEvents + 1), conds \in [Fds -> Conditions] :
       \E ready \in {ReadyFds(epoll.list, conds)} :
       \E chosen \in {c \in SUBSET ready :
                        Cardinality(c) = IF maxEvents < Cardinality(ready)
                                         THEN maxEvents
                                         ELSE Cardinality(ready)} :
       \E order \in Orders(chosen),
          overrun \in (IF Cardinality(chosen) > MaxEvents
                       THEN {"None", "Lost"} ELSE {"None"}) :
          epoll' =
             IF overrun = "Lost"
             THEN [epoll EXCEPT !.lost = TRUE, !.events = <<>>, !.call = NoCall]
             ELSE [epoll EXCEPT
                      !.list = AfterWait(@, chosen),
                      !.events =
                          [i \in DOMAIN order |->
                              [event |-> PollEvent(
                                   [events |-> Reported(epoll.list[order[i]],
                                                        conds[order[i]]),
                                    data |-> epoll.list[order[i]].data]),
                               fd |-> order[i],
                               reported |-> Reported(epoll.list[order[i]],
                                                     conds[order[i]]),
                               shot |-> Shot(epoll.oneShot[order[i]],
                                            epoll.shots[order[i]])]],
                      !.call = NoCall,
                      !.shots = [fd \in Fds |->
                                    IF fd \in chosen
                                    THEN Shot(epoll.oneShot[fd], @[fd])
                                    ELSE @[fd]]]
    /\ UNCHANGED <<parser, cur, wire, outcome, raised, invoked, sent, resets,
                   nfed, deliveries, response, uriQuery>>

NextEpoll ==
    \/ EpollNew
    \/ EpollAddFd
    \/ EpollAddFdOneShot
    \/ EpollRemoveFd
    \/ EpollRearmFd
    \/ EpollPoll

SpecEpoll == Init /\ [][NextEpoll]_vars

\* ------------------------------------------------------------------------
\* The query specification: one Uri::Query and the calls made on it
\* ------------------------------------------------------------------------
\* The adds made on one Query.
MaxAdds == 3

QueryNames == {<<"a">>, <<"b">>}
QueryValues == {<<>>, <<"1">>, <<"2">>}

\* A name that is never added.
OtherName == <<"c">>

UriQueryNew ==
    /\ uriQuery' = NewQuery
    /\ UNCHANGED <<parser, cur, wire, outcome, raised, invoked, sent, resets,
                   nfed, deliveries, response, epoll>>

\* Query::add(name, value)
UriQueryAdd ==
    /\ Len(uriQuery.adds) < MaxAdds
    /\ \E name \in QueryNames, value \in QueryValues :
          uriQuery' = [params |-> QueryAdd(uriQuery.params, name, value),
                       adds |-> Append(uriQuery.adds, <<name, value>>),
                       got |-> NoGet]
    /\ UNCHANGED <<parser, cur, wire, outcome, raised, invoked, sent, resets,
                   nfed, deliveries, response, epoll>>

\* Query::get(name)
UriQueryGet ==
    /\ \E name \in QueryNames \cup {OtherName} :
          uriQuery' = [uriQuery EXCEPT
                          !.got = [called |-> TRUE, name |-> name,
                                   result |-> QueryGet(uriQuery.params, name)]]
    /\ UNCHANGED <<parser, cur, wire, outcome, raised, invoked, sent, resets,
                   nfed, deliveries, response, epoll>>

NextQuery ==
    \/ UriQueryNew
    \/ UriQueryAdd
    \/ UriQueryGet

SpecQuery == Init /\ [][NextQuery]_vars

\* ------------------------------------------------------------------------
\* Properties of the parser driver (checked under SpecParser)
\* ------------------------------------------------------------------------
\* x begins with the bytes pre / ends with the bytes suf.
StartsWith(x, pre) == Len(x) >= Len(pre) /\ SubSeq(x, 1, Len(pre)) = pre
EndsWith(x, suf) ==
    Len(x) >= Len(suf) /\ SubSeq(x, Len(x) - Len(suf) + 1, Len(x)) = suf

\* Request i fits in the buffer of a connection.
Fits(i) == Len(Bytes[i]) <= MaxBuffer

\* The bytes of the current request fed so far.
FedLen == Len(Bytes[cur]) - Len(wire)

\* Feeding request i to a new parser as a single chunk, then parse.
OneChunk == [i \in 1..NumRequests |-> Parse(Feed(NewParser, Bytes[i]))]

\* The parser p is as a newly constructed one for every later feed and
\* parse: its buffer, cursor, step index, bytesRead and the request's
\* resource, query, headers and body are those of NewParser.  (method and
\* version are left out: a new request has no method yet, and both are
\* stored again by the request-line step before any request is complete.)
AsNew(p) ==
    /\ p.buffer = NewParser.buffer
    /\ p.cursor = NewParser.cursor
    /\ p.currentStep = NewParser.currentStep
    /\ p.bytesRead = NewParser.bytesRead
    /\ p.request.resource = NewRequest.resource
    /\ p.request.query = NewRequest.query
    /\ p.request.headers = NewRequest.headers
    /\ p.request.body = NewRequest.body

\* C1 (as claimed): fragmentation invariance.  For a valid request that fits
\* in the buffer, fed to a new parser in any partition into non-empty
\* chunks, each followed by parse: parse returns Again after every chunk but
\* the last and Done after the last, and the request is then the one that
\* feeding the same bytes as one chunk gives (which is the request the
\* bytes stand for).  The partitions on which parse raises are those of C2
\* and are left aside here.
C1_FragmentationInvariance ==
    (cur # 0 /\ Fresh /\ nfed > 0 /\ Valid(Requests[cur]) /\ Fits(cur)
       /\ outcome # "Raise") =>
        /\ OneChunk[cur].state = "Done"
        /\ OneChunk[cur].parser.request = Expected(Requests[cur])
        /\ IF wire # <<>> THEN outcome = "Again"
           ELSE /\ outcome = "Done"
                /\ parser.request = OneChunk[cur].parser.request

\* C2 (as claimed): insufficient input is never an error.  Feeding a new
\* parser a proper prefix of a valid request (one that fits in the buffer)
\* and calling parse returns Again, wherever the prefix ends.
C2_ProperPrefixAgain ==
    (cur # 0 /\ Fresh /\ nfed = 1 /\ wire # <<>> /\ Valid(Requests[cur])
       /\ FedLen <= MaxBuffer) =>
        outcome = "Again"

\* C3 (as claimed): reset purity.  Right after Parser::reset, called in any
\* state, the parser is as a newly constructed one.
C3_ResetPurity == outcome = "Reset" => AsNew(parser)

\* C4 (as claimed): the version token.  Once the whole request line of a
\* request with a known method has been fed to a new parser, the
\* request-line step has returned Next with version Http10 if the version
\* token is exactly "HTTP/1.0", with Http11 if it is exactly "HTTP/1.1", and
\* for every other token it has raised Bad Request "Encountered invalid HTTP
\* version" and the step index is still 0.
C4_VersionExact ==
    (cur # 0 /\ Fresh /\ nfed > 0 /\ outcome \in {"Again", "Done", "Raise"}
       /\ Requests[cur].method \in MethodStrs
       /\ FedLen >= LineLen(Requests[cur])) =>
        CASE Requests[cur].version = Http10Str ->
               parser.currentStep >= 1 /\ parser.request.version = "Http10"
          [] Requests[cur].version = Http11Str ->
               parser.currentStep >= 1 /\ parser.request.version = "Http11"
          [] OTHER ->
               /\ outcome = "Raise"
               /\ raised = [code |-> BadRequest, msg |-> MsgInvalidVersion]
               /\ parser.currentStep = 0

\* ------------------------------------------------------------------------
\* Properties of a connection (checked under Spec)
\* ------------------------------------------------------------------------
\* The parser of the connection is reset: step 0, empty buffer, cursor 0.
ParserIsReset ==
    parser.currentStep = 0 /\ parser.buffer = <<>> /\ parser.cursor = 0

\* C5 (as claimed): the handler is invoked exactly once per complete
\* request.  For a valid request that fits in the buffer, arriving on a
\* connection in any reads: the handler has not been invoked for it while
\* bytes of it are yet to arrive, and has been invoked exactly once for it
\* when all of them have; it is never invoked by a read that raised a
\* protocol error; and the parser is reset after each invocation.
C5_HandlerOncePerRequest ==
    /\ (cur # 0 /\ Valid(Requests[cur]) /\ Fits(cur) /\ outcome # "Raise") =>
          deliveries = IF wire = <<>> THEN 1 ELSE 0
    /\ outcome = "Raise" => invoked = <<>>
    /\ (invoked # <<>> /\ outcome \notin {"Lost", "Escaped"}) => ParserIsReset

\* The offset of the first blank line (CR LF CR LF) of b at or after c, or
\* -1.
RECURSIVE BlankLine(_, _)
BlankLine(b, c) ==
    IF c + 4 > Len(b) THEN -1
    ELSE IF Span(b, c, c + 4) = CRLF \o CRLF THEN c
    ELSE BlankLine(b, c + 1)

\* The body the bytes b of a request declare: the n bytes after the blank
\* line when the header collection hs has Content-Length n, else none.
DeclaredBody(b, hs) ==
    IF HasHeader(hs, ContentLengthName)
    THEN Span(b, BlankLine(b, 0) + 4,
              BlankLine(b, 0) + 4 + ParseUInt(HeaderValue(hs, ContentLengthName), 0))
    ELSE <<>>

\* C6 (as claimed): the delivered body is exact.  Whenever the handler is
\* invoked, the request's body is the Content-Length bytes that follow the
\* blank line in the bytes the parser was fed, and is empty when the request
\* has no Content-Length header.
C6_DeliveredBodyExact ==
    \A i \in 1..Len(invoked) :
        /\ BlankLine(invoked[i].buffer, 0) >= 0
        /\ HasHeader(invoked[i].request.headers, ContentLengthName) =>
             BlankLine(invoked[i].buffer, 0) + 4
               + ParseUInt(HeaderValue(invoked[i].request.headers,
                                       ContentLengthName), 0)
               <= Len(invoked[i].buffer)
        /\ invoked[i].request.body =
             DeclaredBody(invoked[i].buffer, invoked[i].request.headers)

\* The responses among the byte strings sent whose status line begins
\* "HTTP/1.1 <code> ".
WithCode(code) ==
    {i \in 1..Len(sent) : StartsWith(sent[i], HttpPrefix \o WriteUInt(code) \o <<SP>>)}

\* C7 (as claimed): error mapping in onInput.  A read on which parsing raised
\* a protocol error sent exactly one response, whose status line begins
\* "HTTP/1.1 <code> " with the error's code and which ends with the error's
\* reason; the handler was not invoked; the parser is reset.  A read on
\* which the handler threw any other exception sent exactly one 500
\* response, ending with the exception's message when it has one, and the
\* parser is reset.
C7_ErrorMapping ==
    /\ outcome = "Raise" =>
         /\ Len(sent) = 1
         /\ WithCode(raised.code) = {1}
         /\ EndsWith(sent[1], raised.msg)
         /\ invoked = <<>>
         /\ ParserIsReset
    /\ outcome \in {"Exception", "Escaped"} =>
         /\ Cardinality(WithCode(InternalServerError)) = 1
         /\ outcome = "Exception" => EndsWith(sent[Len(sent)], raised.msg)
         /\ ParserIsReset

\* C8 (as claimed): overflow.  A read whose bytes did not fit in the buffer
\* invoked no handler, sent exactly one response, a 413, and left the parser
\* as a newly constructed one, so that the next bytes are parsed as the
\* start of a new request.
C8_OverflowHandling ==
    outcome = "Overflow" =>
        /\ invoked = <<>>
        /\ Len(sent) = 1
        /\ WithCode(RequestEntityTooLarge) = {1}
        /\ AsNew(parser)

\* ------------------------------------------------------------------------
\* Properties of the response serializer (checked under SpecResponse)
\* ------------------------------------------------------------------------
\* Reading a response back: the offset of the first CR LF of out at or after
\* c, or -1.
RECURSIVE LineEnd(_, _)
LineEnd(out, c) ==
    IF c + 2 > Len(out) THEN -1
    ELSE IF out[c + 1] = CR /\ out[c + 2] = LF THEN c
    ELSE LineEnd(out, c + 1)

\* The lines of out from offset c up to the first empty line.
RECURSIVE HeadLines(_, _)
HeadLines(out, c) ==
    IF LineEnd(out, c) \in {-1, c} THEN <<>>
    ELSE <<Span(out, c, LineEnd(out, c))>> \o HeadLines(out, LineEnd(out, c) + 2)

\* The offset after the first empty line of out at or after c, or -1.
RECURSIVE HeadEnd(_, _)
HeadEnd(out, c) ==
    IF LineEnd(out, c) = -1 THEN -1
    ELSE IF LineEnd(out, c) = c THEN c + 2
    ELSE HeadEnd(out, LineEnd(out, c) + 2)

\* out read as an HTTP response: the status line, the header lines and the
\* body.
ReadBack(out) ==
    [status |-> IF HeadLines(out, 0) = <<>> THEN <<>> ELSE Head(HeadLines(out, 0)),
     fields |-> IF HeadLines(out, 0) = <<>> THEN <<>> ELSE Tail(HeadLines(out, 0)),
     body   |-> IF HeadEnd(out, 0) = -1 THEN <<>>
                ELSE Span(out, HeadEnd(out, 0), Len(out))]

\* The header lines of fields for the header called name.
FieldsNamed(fields, name) ==
    {i \in 1..Len(fields) : StartsWith(fields[i], name \o <<":">>)}

\* C9: a send with a valid MIME that hands bytes to the peer emits exactly
\* one Content-Type header line, and that line carries the MIME, whether or
\* not a Content-Type header was in the collection before the call.
C9_OneContentType ==
    (response.result = "Sent" /\ MimeIsValid(response.mime)) =>
        /\ Cardinality(FieldsNamed(ReadBack(response.out).fields, ContentTypeName)) = 1
        /\ \A i \in FieldsNamed(ReadBack(response.out).fields, ContentTypeName) :
              ReadBack(response.out).fields[i]
                = ContentTypeName \o ColonSP \o response.mime

\* A send with a valid MIME went out from a response that already had a
\* Content-Type header and another header.
C9_Witness ==
    /\ response.result = "Sent"
    /\ MimeIsValid(response.mime)
    /\ response.had
    /\ Len(response.headers) = 2

\* What every successful send gives when read back: the status line of the
\* code and a body equal to the one sent.
RoundTripBase ==
    /\ HeadEnd(response.out, 0) # -1
    /\ ReadBack(response.out).status
         = HttpPrefix \o WriteUInt(response.code) \o <<SP>> \o CodeReason(response.code)
    /\ ReadBack(response.out).body = response.body

\* The Content-Length header lines of the response read back.
LengthFields == FieldsNamed(ReadBack(response.out).fields, ContentLengthName)

FieldLen(name, value) == Len(name) + 2 + Len(value) + 2

RECURSIVE FieldsLen(_)
FieldsLen(hs) ==
    IF hs = <<>> THEN 0
    ELSE FieldLen(Head(hs).name, Head(hs).value) + FieldsLen(Tail(hs))

\* The number of bytes the last send had to write: the status line, the
\* Content-Type line of a MIME given to a response without that header, the
\* headers of the collection, and the empty line or the Content-Length line,
\* the empty line and the body.
FullLen ==
    Len(HttpPrefix) + Len(WriteUInt(response.code)) + 1
    + Len(CodeReason(response.code)) + 2
    + (IF MimeIsValid(response.mime) /\ ~response.had
       THEN FieldLen(ContentTypeName, response.mime) ELSE 0)
    + FieldsLen(response.headers)
    + (IF response.body = <<>> THEN 2
       ELSE FieldLen(ContentLengthName, WriteUInt(Len(response.body))) + 2
            + Len(response.body))

\* C11: a send whose writes of the status line, the headers and the body
\* come to more bytes than the scratch buffer holds fails with the
\* insufficient-space error, and the send of a peer is not called: not one
\* byte is handed over.  (A send whose thread did not come back from crlf
\* hands nothing over either.)
C11_ScratchOverflow ==
    /\ (response.result \notin {"None", "Lost"} /\ FullLen > BufSize) =>
          response.result = "NoSpace" /\ response.calls = <<>>
    /\ response.result \in {"NoSpace", "Lost"} => response.calls = <<>>

\* A send to a live peer failed in the write of a header: the status line
\* and the long header fit, the body is empty.
C11_Witness ==
    /\ response.result = "NoSpace"
    /\ response.peerWas = "live"
    /\ response.body = <<>>
    /\ FullLen > BufSize
    /\ \E i \in 1..Len(response.headers) : response.headers[i].value = LongValue

\* C12 (as claimed): a send on a response whose peer was destroyed, or that
\* never had one, fails with the broken-pipe error and hands no bytes to any
\* transport.
C12_BrokenPipe ==
    (response.result \notin {"None", "Lost"} /\ response.peerWas # "live") =>
        response.result = "BrokenPipe" /\ response.calls = <<>>

\* C12 (amended): a send on a response whose peer was destroyed, or that
\* never had one, hands no bytes to any transport and fails: with the
\* insufficient-space error when its writes do not fit in the scratch buffer
\* (the writes come before the peer is looked at), with the broken-pipe error
\* otherwise.  Bytes are handed over only by a send whose peer was live when
\* it was called and stayed so.
C12_BrokenPipeAmended ==
    /\ (response.result \notin {"None", "Lost"} /\ response.peerWas # "live") =>
          /\ response.calls = <<>>
          /\ response.result = IF FullLen > BufSize THEN "NoSpace" ELSE "BrokenPipe"
    /\ response.calls # <<>> => response.peerWas = "live" /\ response.peer = "live"

\* A send that fits was called after the peer had been destroyed.
C12_Witness ==
    /\ response.result = "BrokenPipe"
    /\ response.peerWas = "gone"
    /\ response.body = HandlerBody

\* ------------------------------------------------------------------------
\* Properties of the notifier (checked under SpecEpoll)
\* ------------------------------------------------------------------------
\* The native mask the interest mapping describes for a registration.
MaskFor(op, interest, mode) ==
    {b \in {EPOLLIN} : NotifyOnRead \in interest}
    \cup {b \in {EPOLLOUT} : NotifyOnWrite \in interest}
    \cup {b \in {EPOLLHUP} : NotifyOnHangup \in interest}
    \cup {b \in {EPOLLET} : mode = Edge}
    \cup {b \in {EPOLLONESHOT} : op = "addFdOneShot"}

\* C13 (as claimed): every event poll appends carries as flags the subset of
\* Read, Write and Hangup that the operating system reported for the
\* descriptor, together with the tag of the registration.
C13_PollFlags ==
    \A i \in DOMAIN epoll.events :
        /\ epoll.events[i].event.flags = ToNotifyOn(epoll.events[i].reported)
        /\ epoll.events[i].event.tag = epoll.list[epoll.events[i].fd].data

\* C14 (as claimed): the native mask registered by addFd, addFdOneShot and
\* rearmFd holds EPOLLIN, EPOLLOUT and EPOLLHUP exactly when the interest
\* holds Read, Write and Hangup, the edge bit exactly when the mode is Edge
\* and the one-shot bit exactly when the call is addFdOneShot, so that it is
\* the same on every call with the same arguments.
C14_InterestMapping ==
    epoll.call.op \in {"addFd", "addFdOneShot", "rearmFd"} =>
        epoll.list[epoll.call.fd].events =
            MaskFor(epoll.call.op, epoll.call.interest, epoll.call.mode)

\* C15 (as claimed): for a descriptor added with addFdOneShot, poll delivers
\* at most one event between two consecutive arming operations
\* (addFdOneShot and each later rearmFd).
C15_OneShot ==
    \A fd \in Fds : epoll.oneShot[fd] => epoll.shots[fd] <= 1

\* C16: the tag of every event poll appends is the 64-bit tag given to the
\* most recent addFd, addFdOneShot or rearmFd of its descriptor, and poll
\* appends no event for a descriptor that was removed with removeFd and not
\* added again.
C16_TagFidelity ==
    \A i \in DOMAIN epoll.events :
        /\ epoll.list[epoll.events[i].fd].in
        /\ epoll.events[i].event.tag = epoll.supplied[epoll.events[i].fd]

\* A poll appended two events with different tags, one of them for a
\* descriptor that was rearmed since it was added, its tag with a high half
\* that is not zero.
C16_Witness ==
    /\ Len(epoll.events) = 2
    /\ epoll.events[1].event.tag # epoll.events[2].event.tag
    /\ \E i \in DOMAIN epoll.events :
          /\ epoll.events[i].shot = 2
          /\ epoll.events[i].event.tag[1] # 0

\* ------------------------------------------------------------------------
\* Properties of the query (checked under SpecQuery)
\* ------------------------------------------------------------------------
\* The adds made with the name, in the order they were made.
AddsOf(adds, name) == SelectSeq(adds, LAMBDA a : a[1] = name)

\* C17: get(name) returns the value of the first add made with that name,
\* whatever adds with the same name came later, and None for a name that was
\* never added.
C17_QueryFirstWins ==
    uriQuery.got.called =>
        LET mine == AddsOf(uriQuery.adds, uriQuery.got.name) IN
        IF mine = <<>> THEN ~uriQuery.got.result.some
        ELSE /\ uriQuery.got.result.some
             /\ uriQuery.got.result.value = mine[1][2]

\* A get of a name that was added three times, with a different value
\* after the first add.
C17_Witness ==
    /\ uriQuery.got.called
    /\ uriQuery.got.result.some
    /\ Len(AddsOf(uriQuery.adds, uriQuery.got.name)) = 3
    /\ uriQuery.adds[2][2] # uriQuery.adds[1][2]

\* ------------------------------------------------------------------------
\* Properties of the steps (checked under SpecParser)
\* ------------------------------------------------------------------------
\* The bytes the body step of p has moved the cursor over without storing
\* them in the body: the cursor less the body bytes stored, counted from
\* where the header step left it (at the CRLF of the blank line).
BodySkipped(p) ==
    p.cursor - Len(p.request.body) - (BlankLine(p.buffer, 0) + 2)

\* C18 (as claimed): in a request with a Content-Length header the CRLF of
\* the blank line is skipped once, however many times the body step is
\* entered (also when its first entry returns Again with no body byte in
\* the buffer yet), and no byte of the body is skipped: the body step of a
\* new parser has skipped no byte or the two of the blank line while it
\* returns Again, and those two when it returns Done.
C18_BlankLineOnce ==
    (cur # 0 /\ Fresh /\ Valid(Requests[cur]) /\ Fits(cur)
       /\ parser.currentStep = 2 /\ outcome \in {"Again", "Done"}
       /\ HasHeader(parser.request.headers, ContentLengthName)) =>
        BodySkipped(parser) \in (IF outcome = "Done" THEN {2} ELSE {0, 2})

\* The offset of the end of request i in its bytes: the end of the blank
\* line without Content-Length, the end of the Content-Length body bytes
\* otherwise.
RequestEnd(i) == HeadLen(Requests[i]) + 2 + DeclaredLength(Requests[i])

\* C19 (as claimed): parse never moves the cursor past the end of the
\* current request, on a new parser or a reset one, whatever chunks the
\* bytes arrive in, also when the buffer holds bytes after the request.
C19_NeverPastEnd ==
    cur # 0 => parser.cursor <= RequestEnd(cur)

\* The cursor at which the parse that took the parser from p (before the
\* feed) to q entered the step it ended in, for a q in the request-line or
\* the headers step: the cursor of p when p was in that step already, and
\* otherwise the cursor the request-line step returned Next with.
StepEntry(p, q) ==
    IF q.currentStep = p.currentStep THEN p.cursor
    ELSE RequestLineStep(q.buffer, p.cursor, p.request, p.bytesRead).cursor

\* C20: when RequestLineStep::apply or HeadersStep::apply returns Again or
\* raises a protocol error, the cursor after the call is the cursor at the
\* call's entry; a feed and parse never moves the cursor backwards, and
\* moves it within these two steps only across a call that returns Next.
C20_SavepointAtomicity ==
    [][/\ (outcome' \in {"Again", "Raise"} /\ parser'.currentStep \in {0, 1}) =>
             parser'.cursor = StepEntry(parser, parser')
       /\ outcome' \in {"Again", "Raise", "Done"} =>
             parser'.cursor >= parser.cursor]_vars

\* The headers step returned Again after it had read and stored a whole
\* header field: the cursor is back at the end of the request line.
C20_Witness ==
    /\ cur # 0
    /\ outcome = "Again"
    /\ parser.currentStep = 1
    /\ parser.request.headers # <<>>
    /\ parser.cursor = LineLen(Requests[cur])
    /\ Len(parser.buffer) > parser.cursor + 2

\* The body step of p has returned Again for the current request.
BodyAgain(p, state) == cur # 0 /\ state = "Again" /\ p.currentStep = 2

\* The tail t that the body of q has after the body of p, or <<"?">> when
\* the body of p is not the beginning of the body of q.
Appended(p, q) ==
    IF StartsWith(q.request.body, p.request.body)
    THEN SubSeq(q.request.body, Len(p.request.body) + 1, Len(q.request.body))
    ELSE <<"?">>

\* C21 (as claimed): body resumption never doubles state.  In every state
\* where the body step has returned Again for the current request, the
\* length of the body is bytesRead and less than Content-Length, and the
\* body holds each body byte of the buffer at most once (it is the bytes of
\* the buffer that end at the cursor); and when the step is run again after
\* more bytes have arrived, what it appends are bytes of the buffer that
\* were not appended before, those at or after the cursor it had stopped at.
C21_BodyResumption ==
    [][/\ BodyAgain(parser', outcome') =>
             /\ Len(parser'.request.body) = parser'.bytesRead
             /\ parser'.bytesRead <
                   ParseUInt(HeaderValue(parser'.request.headers,
                                         ContentLengthName), 0)
             /\ parser'.request.body =
                   Span(parser'.buffer,
                        parser'.cursor - Len(parser'.request.body),
                        parser'.cursor)
       /\ (BodyAgain(parser, outcome) /\ cur' = cur /\ resets' = resets
             /\ outcome' \in {"Again", "Done"}) =>
             \E from \in parser.cursor..Len(parser'.buffer) :
                /\ from + Len(Appended(parser, parser')) <= Len(parser'.buffer)
                /\ Appended(parser, parser') =
                      Span(parser'.buffer, from,
                           from + Len(Appended(parser, parser')))]_vars

=============================================================================
